---------------------------- MODULE Spec2Model ----------------------------
(***************************************************************************)
(* A model of the comicmanager archive merge engine:                       *)
(*   core/file_utils.py    (format detector, archive inspector)            *)
(*   core/zip_extractor.py (image extractor for generic ZIP inputs)        *)
(*   core/cbz_merger.py    (merge orchestrator)                            *)
(* Strings are sequences of one-character strings so that suffixes,        *)
(* lexicographic order and the natural sort key are computed, not assumed. *)
(***************************************************************************)
EXTENDS Integers, Sequences, FiniteSets, TLC

(***************************************************************************)
(* Bounds of the model.                                                    *)
(***************************************************************************)
\* The longest input list of a merge call.
MaxInputs == 2
\* The longest input list when two calls run side by side.
MaxSharedInputs == 1
\* The most entries of a ZIP given to the extractor on its own.
MaxEntries == 2
\* The most words of a format string.
MaxWords == 2

(***************************************************************************)
(* Characters and strings.                                                 *)
(***************************************************************************)
\* The characters the model uses, in code point order.  "sup2" stands for
\* the one character SUPERSCRIPT TWO (U+00B2): str.isdigit() is true of it,
\* the pattern \d does not match it and int() does not accept it.
Chars ==
  << " ", ",", ".", "/",
     "0", "1", "2", "3", "4", "5", "6", "7", "8", "9",
     "A", "B", "C", "D", "E", "F", "G", "H", "I", "J", "K", "L", "M",
     "N", "O", "P", "Q", "R", "S", "T", "U", "V", "W", "X", "Y", "Z",
     "_",
     "a", "b", "c", "d", "e", "f", "g", "h", "i", "j", "k", "l", "m",
     "n", "o", "p", "q", "r", "s", "t", "u", "v", "w", "x", "y", "z",
     "sup2" >>

CharSet == { Chars[k] : k \in 1..Len(Chars) }

OrdOf == [ c \in CharSet |-> CHOOSE k \in 1..Len(Chars) : Chars[k] = c ]

Ord(c) == OrdOf[c]

IsDigit(c) == Ord(c) >= Ord("0") /\ Ord(c) <= Ord("9")

IsUpper(c) == Ord(c) >= Ord("A") /\ Ord(c) <= Ord("Z")

DigitVal(c) == Ord(c) - Ord("0")

DigitChar(d) == Chars[Ord("0") + d]

\* str.lower() on one character.
LowerChar(c) == IF IsUpper(c) THEN Chars[Ord(c) - Ord("A") + Ord("a")] ELSE c

\* str.lower()
Lower(s) == [ k \in 1..Len(s) |-> LowerChar(s[k]) ]

\* a < b for Python strings (code point lexicographic order).
StrLess(a, b) ==
  \E k \in 1..(Len(b)) :
     /\ k <= Len(a) + 1
     /\ \A m \in 1..(k - 1) : a[m] = b[m]
     /\ \/ k = Len(a) + 1
        \/ (k <= Len(a) /\ Ord(a[k]) < Ord(b[k]))

\* str.endswith
EndsWith(s, t) ==
  /\ Len(t) <= Len(s)
  /\ \A k \in 1..Len(t) : s[Len(s) - Len(t) + k] = t[k]

\* str.startswith
StartsWith(s, t) ==
  /\ Len(t) <= Len(s)
  /\ \A k \in 1..Len(t) : s[k] = t[k]

\* '..' in s
HasDotDot(s) == \E k \in 1..(Len(s) - 1) : s[k] = "." /\ s[k + 1] = "."

\* The last path component: name.split('/')[-1], also pathlib's Path(s).name
\* for the names of the model (no trailing slash).
Leaf(s) ==
  LET slashes == { k \in 1..Len(s) : s[k] = "/" }
      last == IF slashes = {} THEN 0
              ELSE CHOOSE k \in slashes : \A m \in slashes : m <= k
  IN SubSeq(s, last + 1, Len(s))

\* pathlib: Path(s).suffix, the dot included; empty when the leaf has no dot
\* after its first character or ends with the dot.
Suffix(s) ==
  LET n == Leaf(s)
      dots == { k \in 1..Len(n) : n[k] = "." }
      last == IF dots = {} THEN 0
              ELSE CHOOSE k \in dots : \A m \in dots : m <= k
  IN IF last > 1 /\ last < Len(n) THEN SubSeq(n, last, Len(n)) ELSE << >>

\* s.lstrip('.')
LStripDot(s) ==
  LET nd == { k \in 1..Len(s) : s[k] # "." }
      first == IF nd = {} THEN Len(s) + 1
               ELSE CHOOSE k \in nd : \A m \in nd : k <= m
  IN SubSeq(s, first, Len(s))

\* s.strip(): the model's only whitespace character is the space.
Strip(s) ==
  LET ns == { k \in 1..Len(s) : s[k] # " " } IN
  IF ns = {} THEN << >>
  ELSE SubSeq(s, CHOOSE k \in ns : \A m \in ns : k <= m,
                 CHOOSE k \in ns : \A m \in ns : k >= m)

\* s.split(','): the pieces between the commas, one more than the commas.
RECURSIVE SplitComma(_)
SplitComma(s) ==
  LET commas == { k \in 1..Len(s) : s[k] = "," } IN
  IF commas = {} THEN << s >>
  ELSE LET first == CHOOSE k \in commas : \A m \in commas : k <= m
       IN << SubSeq(s, 1, first - 1) >> \o SplitComma(SubSeq(s, first + 1, Len(s)))

\* The decimal digits of n, zero padded to at least w characters: f"{n:0wd}".
RECURSIVE Digits(_)
Digits(n) == IF n < 10 THEN << DigitChar(n) >>
             ELSE Digits(n \div 10) \o << DigitChar(n % 10) >>

RECURSIVE PadLeft(_, _)
PadLeft(s, w) == IF Len(s) >= w THEN s ELSE PadLeft(<< "0" >> \o s, w)

Fmt(n, w) == PadLeft(Digits(n), w)


(***************************************************************************)
(* The files the caller can name.  Each has a path, may exist, may open as *)
(* a ZIP container, and lists its entry names in container order.          *)
(***************************************************************************)
\* SUPPORTED_IMAGE_FORMATS (zip_extractor.py), extensions without the dot.
SUPPORTED_IMAGE_FORMATS ==
  { <<"j","p","g">>, <<"j","p","e","g">>, <<"p","n","g">>,
    <<"w","e","b","p">>, <<"g","i","f">>, <<"b","m","p">> }

\* image_extensions (file_utils.py), extensions with the dot.
image_extensions == { <<".">> \o e : e \in SUPPORTED_IMAGE_FORMATS }

Catalog ==
  "a.cbz" :> [ path |-> <<"d","/","a",".","c","b","z">>, exists |-> TRUE, opens |-> TRUE,
               entries |-> << <<"2",".","j","p","g">>,
                              <<"1","0",".","j","p","g">> >> ]
  @@
  "z.zip" :> [ path |-> <<"z",".","z","i","p">>, exists |-> TRUE, opens |-> TRUE,
               entries |-> << <<"b","1","0",".","j","p","g">>,
                              <<"b","2",".","p","n","g">> >> ]
  @@
  "e.cbz" :> [ path |-> <<"e",".","c","b","z">>, exists |-> TRUE, opens |-> TRUE,
               entries |-> << <<"n",".","t","x","t">> >> ]
  @@
  "x.cbz" :> [ path |-> <<"x",".","c","b","z">>, exists |-> TRUE, opens |-> FALSE,
               entries |-> << >> ]
  @@
  "m.cbz" :> [ path |-> <<"m",".","c","b","z">>, exists |-> FALSE, opens |-> FALSE,
               entries |-> << >> ]
  @@
  "t.txt" :> [ path |-> <<"t",".","t","x","t">>, exists |-> TRUE, opens |-> TRUE,
               entries |-> << <<"1",".","j","p","g">> >> ]
  @@
  "n.zip" :> [ path |-> <<"n",".","z","i","p">>, exists |-> TRUE, opens |-> TRUE,
               entries |-> << <<"n",".","t","x","t">>,
                              <<".",".","/","9",".","j","p","g">> >> ]
  @@
  "u.cbz" :> [ path |-> <<"u",".","c","b","z">>, exists |-> TRUE, opens |-> TRUE,
               entries |-> << <<".",".","/","9",".","j","p","g">>,
                              <<"1",".","p","n","g">> >> ]

Files == DOMAIN Catalog

\* Path(file_path).stat().st_size of each file that exists, in some unit.
SizeOf ==
  "a.cbz" :> 3 @@ "z.zip" :> 5 @@ "e.cbz" :> 1 @@ "x.cbz" :> 2 @@
  "m.cbz" :> 0 @@ "t.txt" :> 4 @@ "n.zip" :> 2 @@ "u.cbz" :> 3

\* The format sets a caller passes as zip_formats.
FormatChoices ==
  { { <<"j","p","g">> },
    { <<"j","p","g">>, <<"p","n","g">> },
    { <<"g","i","f">> } }

(***************************************************************************)
(* Sorting.                                                                *)
(***************************************************************************)
\* x placed into the sorted list s after every element that is not greater,
\* `after` being the places of the elements of s that are greater than x: the
\* step of a stable sort.
InsertSorted(x, s, after) ==
  LET at == IF after = {} THEN Len(s) + 1
            ELSE CHOOSE k \in after : \A m \in after : k <= m
  IN SubSeq(s, 1, at - 1) \o << x >> \o SubSeq(s, at, Len(s))

\* [x for x in s if Keep(x)]
RECURSIVE FilterSeq(_, _)
FilterSeq(s, keep) ==
  IF s = << >> THEN << >>
  ELSE (IF Head(s) \in keep THEN << Head(s) >> ELSE << >>)
       \o FilterSeq(Tail(s), keep)

(***************************************************************************)
(* core/file_utils.py                                                      *)
(***************************************************************************)
\* FileUtils.is_valid_cbz_file
is_valid_cbz_file(f) ==
  /\ Catalog[f].exists
  /\ Lower(Suffix(Catalog[f].path)) = <<".","c","b","z">>
  /\ Catalog[f].opens

\* The entries is_valid_zip_file counts: not a directory, not a traversal
\* name, suffix a supported image extension.
ZipScanImages(f) ==
  { k \in 1..Len(Catalog[f].entries) :
      LET name == Catalog[f].entries[k] IN
      /\ ~EndsWith(name, <<"/">>)
      /\ ~(HasDotDot(name) \/ StartsWith(name, <<"/">>))
      /\ Lower(Suffix(name)) \in image_extensions }

\* FileUtils.is_valid_zip_file
is_valid_zip_file(f) ==
  /\ Catalog[f].exists
  /\ Lower(Suffix(Catalog[f].path)) = <<".","z","i","p">>
  /\ Catalog[f].opens
  /\ ZipScanImages(f) # {}

\* FileUtils.is_valid_comic_file
is_valid_comic_file(f) == is_valid_cbz_file(f) \/ is_valid_zip_file(f)

\* FileUtils.get_file_type
get_file_type(f) ==
  LET suffix == Lower(Suffix(Catalog[f].path)) IN
  IF suffix = <<".","c","b","z">> THEN "CBZ"
  ELSE IF suffix = <<".","z","i","p">>
       THEN (IF is_valid_cbz_file(f) THEN "CBZ"
             ELSE IF is_valid_zip_file(f) THEN "ZIP" ELSE "UNKNOWN")
       ELSE "UNKNOWN"

\* sorted(s) and s.sort() for a list of strings.
RECURSIVE SortStrings(_)
SortStrings(s) ==
  IF s = << >> THEN << >>
  ELSE LET x == s[Len(s)]
           rest == SortStrings(SubSeq(s, 1, Len(s) - 1))
       IN InsertSorted(x, rest, { k \in 1..Len(rest) : StrLess(x, rest[k]) })

\* The image_files list of extract_comic_info: every entry whose lowered
\* name ends with a supported extension, sorted as strings.
InfoImageFiles(f) ==
  LET all == Catalog[f].entries
      keep == { n \in { all[k] : k \in 1..Len(all) } :
                  \E e \in image_extensions : EndsWith(Lower(n), e) }
  IN SortStrings(FilterSeq(all, keep))

\* What extract_comic_info returns for a file it cannot read (line 148): a
\* record with the 'error' key and no descriptor field.  The fields of the
\* model's record are there for its shape and hold nothing.
InspectionError(f) ==
  [ error |-> TRUE, file_path |-> f, file_type |-> "UNKNOWN",
    file_size |-> 0, page_count |-> 0, image_files |-> << >> ]

\* FileUtils.extract_comic_info: a descriptor, or a record with error set.
extract_comic_info(f) ==
  IF Catalog[f].exists /\ Catalog[f].opens
  THEN [ error |-> FALSE, file_path |-> f, file_type |-> get_file_type(f),
         file_size |-> SizeOf[f],
         page_count |-> Len(InfoImageFiles(f)),
         image_files |-> InfoImageFiles(f) ]
  ELSE InspectionError(f)

(***************************************************************************)
(* core/zip_extractor.py                                                   *)
(***************************************************************************)
\* text.isdigit()
IsDigitStr(t) == Len(t) > 0 /\ \A k \in 1..Len(t) : IsDigit(t[k]) \/ t[k] = "sup2"

\* int(text)
RECURSIVE ToInt(_)
ToInt(t) == IF t = << >> THEN 0
            ELSE 10 * ToInt(SubSeq(t, 1, Len(t) - 1)) + DigitVal(t[Len(t)])

\* The length of the longest prefix of s made of digits (d) or of
\* non-digits (~d).
RunLen(s, d) ==
  LET stop == { k \in 1..Len(s) : IsDigit(s[k]) # d }
  IN IF stop = {} THEN Len(s)
     ELSE (CHOOSE k \in stop : \A m \in stop : k <= m) - 1

\* re.split(r'(\d+)', s): text and digit runs alternate, a text run first.
RECURSIVE SplitRuns(_, _)
SplitRuns(s, d) ==
  LET p == RunLen(s, d) IN
  IF ~d /\ p = Len(s) THEN << s >>
  ELSE << SubSeq(s, 1, p) >> \o SplitRuns(SubSeq(s, p + 1, Len(s)), ~d)

\* natural_sort_key of an entry name.
natural_sort_key(name) ==
  LET runs == SplitRuns(Leaf(name), FALSE) IN
  [ k \in 1..Len(runs) |->
      IF IsDigitStr(runs[k])
      THEN [ isnum |-> TRUE, n |-> ToInt(runs[k]), s |-> << >> ]
      ELSE [ isnum |-> FALSE, n |-> 0, s |-> Lower(runs[k]) ] ]

\* Whether natural_sort_key raises on the name: int(text) raises ValueError
\* when a run passes isdigit() and holds a character that is no decimal digit.
KeyRaises(name) ==
  LET runs == SplitRuns(Leaf(name), FALSE) IN
  \E k \in 1..Len(runs) :
     IsDigitStr(runs[k]) /\ \E m \in 1..Len(runs[k]) : ~IsDigit(runs[k][m])

\* One element of a key against another: integers by value, text as strings.
TokLess(a, b) ==
  IF a.isnum /\ b.isnum THEN a.n < b.n
  ELSE IF ~a.isnum /\ ~b.isnum THEN StrLess(a.s, b.s)
  ELSE FALSE

\* Python's list order on two keys.
KeyLess(a, b) ==
  \E k \in 1..Len(b) :
     /\ k <= Len(a) + 1
     /\ \A m \in 1..(k - 1) : a[m] = b[m]
     /\ \/ k = Len(a) + 1
        \/ (k <= Len(a) /\ TokLess(a[k], b[k]))

NaturalLess(x, y) == KeyLess(natural_sort_key(x), natural_sort_key(y))

\* image_files.sort(key=natural_sort_key)
RECURSIVE NaturalSort(_)
NaturalSort(s) ==
  IF s = << >> THEN << >>
  ELSE LET x == s[Len(s)]
           rest == NaturalSort(SubSeq(s, 1, Len(s) - 1))
       IN InsertSorted(x, rest, { k \in 1..Len(rest) : NaturalLess(x, rest[k]) })

\* The extension validate_zip_file records for an entry.
EntryExt(name) == LStripDot(Lower(Suffix(name)))

\* validate_zip_file, lines 84-113: the scan of the entry names.
\* (Every entry of the model is below the 100 MB ceiling.)
ScanImageEntries(all) ==
  FilterSeq(all, { n \in { all[k] : k \in 1..Len(all) } :
                     /\ n # << >>
                     /\ ~EndsWith(n, <<"/">>)
                     /\ ~(HasDotDot(n) \/ StartsWith(n, <<"/">>))
                     /\ EntryExt(n) \in SUPPORTED_IMAGE_FORMATS })

\* validate_zip_file, lines 80-151, on a readable file named .zip that holds
\* the entries `all`: the scan, the sort and the verdict.  sort() computes
\* the key of every element, so one name whose key raises leaves the result
\* as it was initialised, with the handler's error.
validate_zip_entries(all) ==
  LET scan == ScanImageEntries(all) IN
  IF \E k \in 1..Len(scan) : KeyRaises(scan[k])
  THEN [ valid |-> FALSE, error |-> "exception", image_files |-> << >> ]
  ELSE [ valid |-> scan # << >>,
         error |-> IF scan = << >> THEN "no_images" ELSE "none",
         image_files |-> NaturalSort(scan) ]

\* ZIPExtractor.validate_zip_file: the image entries, natural sorted.
validate_zip_image_files(f) == validate_zip_entries(Catalog[f].entries).image_files

\* ZIPExtractor.validate_zip_file: result['valid'].
validate_zip_valid(f) ==
  /\ Catalog[f].exists
  /\ Lower(Suffix(Catalog[f].path)) = <<".","z","i","p">>
  /\ Catalog[f].opens
  /\ validate_zip_entries(Catalog[f].entries).valid

\* A faulty filter: every validated entry, whatever its format.
target_files_unfiltered(f, image_formats) == validate_zip_image_files(f)

\* extract_images: target_files, the validated entries in the format set.
target_files(f, image_formats) ==
  LET v == validate_zip_image_files(f) IN
  FilterSeq(v, { n \in { v[k] : k \in 1..Len(v) } : EntryExt(n) \in image_formats })


(***************************************************************************)
(* What the detector, the inspector and the extractor answer for each file *)
(* of the catalog, computed once.  The files do not change during a merge. *)
(***************************************************************************)
file_type_of == [ f \in Files |-> get_file_type(f) ]

comic_info_of == [ f \in Files |-> extract_comic_info(f) ]

valid_comic_files == { f \in Files : is_valid_comic_file(f) }

zip_valid_files == { f \in Files : validate_zip_valid(f) }

target_files_of ==
  [ f \in Files |-> [ fm \in FormatChoices |-> target_files(f, fm) ] ]

(***************************************************************************)
(* The state: the calls of merge_comic_files in progress, one per worker   *)
(* thread, and the disk they share.  Each variable that is a local of the  *)
(* call is a function of the worker.                                       *)
(***************************************************************************)
VARIABLES
  pc,                \* where the worker's call stands
  file_paths,        \* its arguments
  output_path,
  preserve_metadata,
  zip_formats,
  i,                 \* the 0-based index of the next input to process
  page_number,       \* the shared page counter of the call
  merged_info,       \* the per-source summaries collected so far
  result,            \* the result dict being built, the return value at the end
  work_dir,          \* "none", "live" or "removed": the call's working directory
  work_files,        \* the files in that directory
  fs_at_start,       \* output path -> the file that was there when the call began
  scratch_dirs,      \* how many per-CBZ scratch directories exist on the disk
  writes,            \* how many files the call has written into its working directory
  fs,                \* output path -> the file there
  progress,          \* the events the call has handed to its progress callback
  called,            \* the detector or extractor function called on its own
  args,              \* its arguments
  returned,          \* its return value
  output_dir,        \* the files extract_images wrote to its output directory
  inspections,       \* the calls of extract_comic_info made from outside a merge
  merge_button,      \* the state of the window's merge button
  completed,         \* the worker threads whose _on_merge_complete has run
  file_list,         \* FileListWidget.file_list, each file by its path
  selected_indices,  \* FileListWidget.selected_indices, 0-based
  list_op            \* the FileListWidget handler that ran last

vars == << pc, file_paths, output_path, preserve_metadata, zip_formats, i,
           page_number, merged_info, result, work_dir, work_files,
           fs_at_start, scratch_dirs, writes, fs, progress, called, args, returned,
           output_dir, inspections, merge_button, completed, file_list,
           selected_indices, list_op >>

\* The variables of the window and its file list.
widget_vars == << merge_button, completed, file_list, selected_indices,
                  list_op >>

\* The variables outside the merge calls: those of a function called on its
\* own, and those of the window.
unit_vars == << called, args, returned, output_dir, inspections, widget_vars >>

\* The variables of the merge calls.
merge_vars == << pc, file_paths, output_path, preserve_metadata, zip_formats,
                 i, page_number, merged_info, result, work_dir, work_files,
                 fs_at_start, scratch_dirs, writes, fs, progress >>

Workers == { 1, 2 }

\* The output paths a caller can name: one taken by a file that is no
\* product of this program, one free, one in a directory that is missing.
OutPaths == { "old.cbz", "new.cbz", "nodir/new.cbz" }

ParentExists(p) == p # "nodir/new.cbz"

NoFile == [ present |-> FALSE, writer |-> 0, images |-> << >>,
            has_meta |-> FALSE, meta |-> << >>, complete |-> FALSE ]

OldFile == [ present |-> TRUE, writer |-> 0, images |-> << >>,
             has_meta |-> FALSE, meta |-> << >>, complete |-> TRUE ]

InputLists == UNION { [ 1..n -> Files ] : n \in 0..MaxInputs }

\* What two calls side by side are given: a valid and an invalid input, an
\* output path that is taken and one that is free, one format set.
SharedFiles == { "a.cbz", "x.cbz" }

SharedOutPaths == { "old.cbz", "new.cbz" }

SharedLists == UNION { [ 1..n -> SharedFiles ] : n \in 0..MaxSharedInputs }

SharedFormats == { { <<"j","p","g">>, <<"p","n","g">> } }

NoResult == [ success |-> FALSE, error |-> "none", invalid_files |-> << >>,
              total_pages |-> 0, merged_files |-> << >>, errors |-> << >> ]

Init ==
  /\ pc = [ w \in Workers |-> "idle" ]
  /\ file_paths = [ w \in Workers |-> << >> ]
  /\ output_path = [ w \in Workers |-> "new.cbz" ]
  /\ preserve_metadata = [ w \in Workers |-> TRUE ]
  /\ zip_formats = [ w \in Workers |-> { <<"j","p","g">> } ]
  /\ i = [ w \in Workers |-> 0 ]
  /\ page_number = [ w \in Workers |-> 1 ]
  /\ merged_info = [ w \in Workers |-> << >> ]
  /\ result = [ w \in Workers |-> NoResult ]
  /\ work_dir = [ w \in Workers |-> "none" ]
  /\ work_files = [ w \in Workers |-> {} ]
  /\ fs_at_start = [ w \in Workers |-> [ p \in OutPaths |-> NoFile ] ]
  /\ scratch_dirs = 0
  /\ writes = [ w \in Workers |-> 0 ]
  /\ fs = [ p \in OutPaths |-> IF p = "old.cbz" THEN OldFile ELSE NoFile ]
  /\ progress = [ w \in Workers |-> << >> ]
  /\ called = "none"
  /\ args = << >>
  /\ returned = << >>
  /\ output_dir = {}
  /\ inspections = << >>
  /\ merge_button = "normal"
  /\ completed = {}
  /\ file_list = << >>
  /\ selected_indices = << >>
  /\ list_op = "none"

(***************************************************************************)
(* core/cbz_merger.py                                                      *)
(***************************************************************************)
\* Worker w enters merge_comic_files with the given arguments; a missing
\* zip_formats is {'jpg'} (lines 108-110).
Call(w, paths, out, keep, formats) ==
  /\ pc[w] = "idle"
  /\ file_paths' = [ file_paths EXCEPT ![w] = paths ]
  /\ output_path' = [ output_path EXCEPT ![w] = out ]
  /\ preserve_metadata' = [ preserve_metadata EXCEPT ![w] = keep ]
  /\ zip_formats' = [ zip_formats EXCEPT ![w] = formats ]
  /\ pc' = [ pc EXCEPT ![w] = "validating" ]
  /\ fs_at_start' = [ fs_at_start EXCEPT ![w] = fs ]
  /\ UNCHANGED << i, page_number, merged_info, result, work_dir, work_files,
                  scratch_dirs, writes, fs, progress, unit_vars >>

\* A caller invokes merge_comic_files.
Start(w) ==
  /\ pc[w] = "idle"
  /\ \E paths \in InputLists, out \in OutPaths, keep \in BOOLEAN,
        formats \in FormatChoices :
          Call(w, paths, out, keep, formats)

\* A caller invokes merge_comic_files while another call may be running.
StartShared(w) ==
  /\ pc[w] = "idle"
  /\ \E paths \in SharedLists, out \in SharedOutPaths, keep \in BOOLEAN,
        formats \in SharedFormats :
          Call(w, paths, out, keep, formats)

\* Whether validate_comic_files puts the file in valid_files.
IsValidInput(f) == f \in valid_comic_files /\ ~comic_info_of[f].error

\* A faulty turn: a file that is not valid is dropped, listed neither as
\* valid nor as invalid.
validate_one_dropping(results, f) ==
  IF ~IsValidInput(f) THEN results
  ELSE [ results EXCEPT !.valid_files = Append(@, comic_info_of[f]),
                        !.total_size = @ + comic_info_of[f].file_size,
                        !.total_pages = @ + comic_info_of[f].page_count ]

\* validate_comic_files, lines 57-83: one turn of the loop.  A file that is
\* no valid comic file, or whose descriptor has the error key, is appended to
\* invalid_files; any other to valid_files, its size and pages added.
validate_one(results, f) ==
  IF f \notin valid_comic_files
  THEN [ results EXCEPT !.invalid_files = Append(@, f) ]
  ELSE IF comic_info_of[f].error
  THEN [ results EXCEPT !.invalid_files = Append(@, f) ]
  ELSE [ results EXCEPT !.valid_files = Append(@, comic_info_of[f]),
                        !.total_size = @ + comic_info_of[f].file_size,
                        !.total_pages = @ + comic_info_of[f].page_count ]

\* validate_comic_files, lines 57-85: the loop over file_paths.
RECURSIVE validate_loop(_, _)
validate_loop(results, paths) ==
  IF paths = << >> THEN results
  ELSE validate_loop(validate_one(results, Head(paths)), Tail(paths))

\* CBZMerger.validate_comic_files
validate_comic_files(paths) ==
  validate_loop([ valid_files |-> << >>, invalid_files |-> << >>,
                  total_size |-> 0, total_pages |-> 0 ], paths)

\* A faulty gate: it stops the merge only when no input at all is valid.
InputsRejectedNoneValid(v) == v.valid_files = << >>

\* Line 114: the test on the validation result that stops the merge.
InputsRejected(v) == v.invalid_files # << >>

\* merge_comic_files, lines 112-119: the input gate.
ValidateInputs(w) ==
  /\ pc[w] = "validating"
  /\ LET v == validate_comic_files(file_paths[w]) IN
     IF InputsRejected(v)
     THEN /\ result' = [ result EXCEPT ![w] =
                           [ NoResult EXCEPT !.error = "invalid_files",
                                             !.invalid_files = v.invalid_files ] ]
          /\ pc' = [ pc EXCEPT ![w] = "done" ]
     ELSE /\ result' = result
          /\ pc' = [ pc EXCEPT ![w] = "checking_output" ]
  /\ UNCHANGED << file_paths, output_path, preserve_metadata, zip_formats, i,
                  page_number, merged_info, work_dir, work_files,
                  fs_at_start, scratch_dirs, writes, fs, progress, unit_vars >>

\* A faulty output gate: validate_output_path as if called with overwrite=True.
validate_output_path_overwrite(p) == ParentExists(p)

\* FileUtils.validate_output_path, overwrite left at its default.
validate_output_path(p) == ParentExists(p) /\ ~fs[p].present

\* merge_comic_files, lines 121-140: the output gate, then the working
\* directory.  mkdtemp can fail; the outer handler turns that into a result.
ValidateOutput(w) ==
  /\ pc[w] = "checking_output"
  /\ IF ~validate_output_path(output_path[w])
     THEN /\ result' = [ result EXCEPT ![w] = [ NoResult EXCEPT !.error = "path" ] ]
          /\ pc' = [ pc EXCEPT ![w] = "done" ]
          /\ UNCHANGED work_dir
     ELSE \E made \in BOOLEAN :
            IF made
            THEN /\ work_dir' = [ work_dir EXCEPT ![w] = "live" ]
                 /\ result' = result
                 /\ pc' = [ pc EXCEPT ![w] =
                              IF Len(file_paths[w]) = 0 THEN "packaging"
                              ELSE "processing" ]
            ELSE /\ UNCHANGED work_dir
                 /\ result' = [ result EXCEPT ![w].errors =
                                  Append(@, [ at |-> 0, kind |-> "merge" ]) ]
                 /\ pc' = [ pc EXCEPT ![w] = "done" ]
  /\ UNCHANGED << file_paths, output_path, preserve_metadata, zip_formats, i,
                  page_number, merged_info, work_files, fs_at_start,
                  scratch_dirs, writes, fs, progress, unit_vars >>

\* Writing a file into the working directory replaces a file of that name.
WriteFile(dir, file) == { x \in dir : x.name # file.name } \cup { file }

\* t in s
Contains(s, t) ==
  \E k \in 0..(Len(s) - Len(t)) : \A m \in 1..Len(t) : s[k + m] = t[m]

\* Whether temp_extract_dir / img_file exists after extractall: extractall
\* drops '..' components and a leading '/', so an entry with either lands
\* elsewhere and the joined path names no unpacked file.
SrcExists(name) ==
  /\ ~StartsWith(name, <<"/">>)
  /\ name # <<".", ".">>
  /\ ~StartsWith(name, <<".", ".", "/">>)
  /\ ~EndsWith(name, <<"/", ".", ".">>)
  /\ ~Contains(name, <<"/", ".", ".", "/">>)

\* f"{page_number:04d}{ext}"
CbzPageName(n, img_file) == Fmt(n, 4) \o Suffix(img_file)

\* f"{chapter_prefix}_{i+1:03d}.{ext}" with chapter_prefix = f"ch{zip_file_number}"
ZipPageName(zip_file_number, seq, ext) ==
  <<"c", "h">> \o Digits(zip_file_number) \o <<"_">> \o Fmt(seq, 3) \o <<".">> \o ext

\* The working directory after the first c pages of a CBZ input were copied,
\* the first of them as page n.
RECURSIVE CopyPages(_, _, _, _, _)
CopyPages(dir, pos, imgs, n, c) ==
  IF c = 0 \/ imgs = << >> THEN dir
  ELSE CopyPages(WriteFile(dir, [ name |-> CbzPageName(n, Head(imgs)),
                                  pos |-> pos, entry |-> Head(imgs),
                                  whole |-> TRUE ]),
                 pos, Tail(imgs), n + 1, c - 1)

\* The working directory after extract_images went through the targets:
\* an entry that is read and written is staged whole, one whose write fails
\* leaves the file it opened, one whose read fails leaves nothing.
RECURSIVE ExtractPages(_, _, _, _, _)
ExtractPages(dir, pos, targets, outcome, k) ==
  IF k > Len(targets) THEN dir
  ELSE ExtractPages(
         IF outcome[k] = "read_fail" THEN dir
         ELSE WriteFile(dir, [ name |-> ZipPageName(pos, k, EntryExt(targets[k])),
                               pos |-> pos, entry |-> targets[k],
                               whole |-> outcome[k] = "ok" ]),
         pos, targets, outcome, k + 1)

EntryOutcomes == { "ok", "read_fail", "write_fail" }

\* The unpacked image files of a CBZ input that the copy loop finds.
CopyableImages(f) ==
  LET imgs == comic_info_of[f].image_files IN
  FilterSeq(imgs, { n \in { imgs[k] : k \in 1..Len(imgs) } : SrcExists(n) })

\* Lines 162-163: info['image_files'] of what extract_comic_info returned.
\* The record it returns for a file it cannot read holds the 'error' key
\* alone, and the subscript raises KeyError.
ReadImageFiles(info) ==
  IF info.error THEN [ raised |-> TRUE, image_files |-> << >> ]
  ELSE [ raised |-> FALSE, image_files |-> info.image_files ]

\* The working directory after shutil.copy2 of line 175 raised on the page
\* after the first c: when it raised past opening the destination, the file
\* it opened stays, under the name of a page_number that line 176 has not
\* advanced.
LeftByFailedCopy(dir, pos, imgs, n, c) ==
  WriteFile(dir, [ name |-> CbzPageName(n + c, imgs[c + 1]), pos |-> pos,
                   entry |-> imgs[c + 1], whole |-> FALSE ])

\* The loop body for a CBZ input, lines 154-187.  ok: nothing raised;
\* otherwise unpacking or the copy after `copied` pages raised (left: past
\* opening its destination), or, the file being unreadable when line 162
\* opens it once more, the subscript of line 163 raised; the handler of
\* lines 229-232 records the error.
ProcessCBZ(w, f, ok, copied, readable, left) ==
  LET info == IF readable THEN comic_info_of[f] ELSE InspectionError(f)
      imgs == comic_info_of[f].image_files
      there == CopyableImages(f)
      staged == CopyPages(work_files[w], i[w] + 1, there, page_number[w], copied)
  IN /\ IF ok THEN copied = Len(there)
              ELSE copied < Len(there) \/ (copied = 0 /\ Len(there) = 0)
     /\ ReadImageFiles(info).raised => (~ok /\ copied = 0)
     /\ left => (~ok /\ ~ReadImageFiles(info).raised /\ copied < Len(there))
     /\ work_files' = [ work_files EXCEPT ![w] =
                          IF left
                          THEN LeftByFailedCopy(staged, i[w] + 1, there,
                                                page_number[w], copied)
                          ELSE staged ]
     /\ page_number' = [ page_number EXCEPT ![w] = @ + copied ]
     /\ writes' = [ writes EXCEPT ![w] = @ + copied + (IF left THEN 1 ELSE 0) ]
     /\ IF ok
        THEN /\ merged_info' = [ merged_info EXCEPT ![w] =
                                   Append(@, [ path |-> f, type |-> "CBZ",
                                               pages |-> Len(imgs),
                                               at |-> i[w] + 1 ]) ]
             /\ UNCHANGED << result, scratch_dirs >>
        ELSE /\ result' = [ result EXCEPT ![w].errors =
                              Append(@, [ at |-> i[w] + 1,
                                          kind |-> IF ReadImageFiles(info).raised
                                                   THEN "key_error"
                                                   ELSE "exception" ]) ]
             /\ scratch_dirs' = scratch_dirs + 1
             /\ UNCHANGED merged_info

\* The number of files extract_images opened for writing (line 234): one
\* for each entry that was read.
OpenedCount(outcome) ==
  Cardinality({ k \in DOMAIN outcome : outcome[k] # "read_fail" })

\* The number of entries extract_images counts as extracted.
ExtractedCount(outcome) == Cardinality({ k \in DOMAIN outcome : outcome[k] = "ok" })

\* The loop body for a ZIP input, lines 189-227, with extract_images.
ProcessZIP(w, f, outcome) ==
  LET targets == target_files_of[f][zip_formats[w]] IN
  IF f \notin zip_valid_files \/ targets = << >>
  THEN /\ result' = [ result EXCEPT ![w].errors =
                        Append(@, [ at |-> i[w] + 1, kind |-> "zip_extract" ]) ]
       /\ UNCHANGED << work_files, page_number, merged_info, scratch_dirs,
                       writes >>
  ELSE /\ work_files' = [ work_files EXCEPT ![w] =
                            ExtractPages(@, i[w] + 1, targets, outcome, 1) ]
       /\ writes' = [ writes EXCEPT ![w] = @ + OpenedCount(outcome) ]
       /\ page_number' = [ page_number EXCEPT ![w] = @ + ExtractedCount(outcome) ]
       /\ merged_info' = [ merged_info EXCEPT ![w] =
                             Append(@, [ path |-> f, type |-> "ZIP",
                                         pages |-> ExtractedCount(outcome),
                                         at |-> i[w] + 1 ]) ]
       /\ UNCHANGED << result, scratch_dirs >>

\* A faulty loop: it ends after the first input.
LoopDoneAfterFirst(w, n) == n >= 1

\* Line 143: the for loop ends when n inputs, all of them, have had their turn.
LoopDone(w, n) == n = Len(file_paths[w])

\* A faulty report: the index counted from one.
report_progress_from_one(w, current) ==
  [ current |-> current + 1, total |-> Len(file_paths[w]),
    archive_written |-> fs[output_path[w]].present /\ fs[output_path[w]].writer = w ]

\* CBZMerger._report_progress with a callback set: the event handed to the
\* callback, total being len(file_paths) at every call site (lines 147, 194,
\* 236), and what the callback finds at the output path at that moment.
report_progress(w, current) ==
  [ current |-> current, total |-> Len(file_paths[w]),
    archive_written |-> fs[output_path[w]].present /\ fs[output_path[w]].writer = w ]

\* The events of one turn of the loop: one at its start (lines 144-149) and,
\* for a ZIP input, one more before the extraction (lines 191-196).
TurnEvents(w, file_type) ==
  IF file_type = "ZIP"
  THEN << report_progress(w, i[w]), report_progress(w, i[w]) >>
  ELSE << report_progress(w, i[w]) >>

\* One turn of the loop of lines 143-232.
ProcessFile(w) ==
  /\ pc[w] = "processing"
  /\ i[w] < Len(file_paths[w])
  /\ progress' = [ progress EXCEPT ![w] =
                     @ \o TurnEvents(w, file_type_of[file_paths[w][i[w] + 1]]) ]
  /\ LET f == file_paths[w][i[w] + 1]
         file_type == file_type_of[f]
     IN CASE file_type = "CBZ" ->
               \E ok \in BOOLEAN, copied \in 0..Len(comic_info_of[f].image_files),
                  readable \in BOOLEAN, left \in BOOLEAN :
                  ProcessCBZ(w, f, ok, copied, readable, left)
          [] file_type = "ZIP" ->
               \E outcome \in [ 1..Len(target_files_of[f][zip_formats[w]])
                                  -> EntryOutcomes ] :
                  ProcessZIP(w, f, outcome)
          [] OTHER ->
               UNCHANGED << work_files, page_number, merged_info, result,
                            scratch_dirs, writes >>
  /\ i' = [ i EXCEPT ![w] = @ + 1 ]
  /\ pc' = [ pc EXCEPT ![w] = IF LoopDone(w, i[w] + 1) THEN "packaging"
                              ELSE "processing" ]
  /\ UNCHANGED << file_paths, output_path, preserve_metadata, zip_formats,
                  work_dir, fs_at_start, fs, unit_vars >>

\* A faulty document: the sources by their whole path.
create_merged_comic_info_paths(info) ==
  [ Title |-> "merged", Summary |-> Len(info),
    SourceFiles |-> [ k \in 1..Len(info) |-> Catalog[info[k].path].path ] ]

\* CBZMerger._create_merged_comic_info: the fixed title, the number of
\* summaries, and info['name'], which is Path(file_path).name, of each.
create_merged_comic_info(info) ==
  [ Title |-> "merged", Summary |-> Len(info),
    SourceFiles |-> [ k \in 1..Len(info) |-> Leaf(Catalog[info[k].path].path) ] ]

\* Lines 238-242: the image files of the working directory, by file name.
output_images(dir) ==
  LET imgs == { x \in dir : Lower(Suffix(x.name)) \in image_extensions }
      RECURSIVE AsSeq(_)
      AsSeq(S) == IF S = {} THEN << >>
                  ELSE LET x == CHOOSE y \in S : TRUE IN << x >> \o AsSeq(S \ { x })
      names == SortStrings(AsSeq({ x.name : x \in imgs }))
  IN [ k \in 1..Len(names) |-> CHOOSE x \in imgs : x.name = names[k] ]

\* The file left at the output path by lines 244-253: every image and, if
\* asked for, the metadata; or, when a write raised, what was written before.
ArchiveWritten(w, imgs, written, finished) ==
  LET with_meta == preserve_metadata[w] /\ Len(merged_info[w]) > 0 IN
  [ present |-> TRUE, writer |-> w,
    images |-> SubSeq(imgs, 1, written),
    has_meta |-> (finished /\ with_meta),
    meta |-> IF finished /\ with_meta
             THEN create_merged_comic_info(merged_info[w]) ELSE << >>,
    complete |-> finished ]

\* A faulty total: the counter itself, which starts at 1.
TotalPagesOffByOne(w) == page_number[w]

\* Line 235: result['total_pages'].
TotalPages(w) == page_number[w] - 1

\* A faulty ending: only the removal on the success path (line 259), no
\* finally clause.
WorkDirAtReturnSuccessOnly(w) == IF result'[w].success THEN "removed" ELSE "live"

\* Lines 255-270: what happens to the working directory at the end.
WorkDirAtReturn(w) == "removed"

\* Lines 234-270: write the archive, then remove the working directory and
\* return.  outcome "ok": the archive is written; "open_fail": opening the
\* output raised; "write_fail": a write raised after `written` image entries.
Package(w) ==
  /\ pc[w] = "packaging"
  /\ LET imgs == output_images(work_files[w])
         with_meta == preserve_metadata[w] /\ Len(merged_info[w]) > 0
         r == [ result[w] EXCEPT !.total_pages = TotalPages(w) ]
     IN \E outcome \in { "ok", "open_fail", "write_fail" }, written \in 0..Len(imgs) :
          /\ outcome = "ok" => written = Len(imgs)
          /\ outcome = "open_fail" => written = 0
          /\ outcome = "write_fail" => (written < Len(imgs) \/ with_meta)
          /\ fs' = IF outcome = "open_fail" THEN fs
                   ELSE [ fs EXCEPT ![output_path[w]] =
                            ArchiveWritten(w, imgs, written, outcome = "ok") ]
          /\ result' = [ result EXCEPT ![w] =
                           IF outcome = "ok"
                           THEN [ r EXCEPT !.success = TRUE,
                                           !.merged_files = merged_info[w] ]
                           ELSE [ r EXCEPT !.success = FALSE,
                                           !.errors = Append(@, [ at |-> 0,
                                                                  kind |-> "merge" ]) ] ]
  /\ work_dir' = [ work_dir EXCEPT ![w] = WorkDirAtReturn(w) ]
  /\ work_files' = [ work_files EXCEPT ![w] = {} ]
  /\ progress' = [ progress EXCEPT ![w] =
                     Append(@, report_progress(w, Len(file_paths[w]))) ]
  /\ pc' = [ pc EXCEPT ![w] = "done" ]
  /\ UNCHANGED << file_paths, output_path, preserve_metadata, zip_formats, i,
                  page_number, merged_info, fs_at_start, scratch_dirs, writes,
                  unit_vars >>

\* One call of merge_comic_files, any arguments.
Next ==
  \/ Start(1)
  \/ ValidateInputs(1)
  \/ ValidateOutput(1)
  \/ ProcessFile(1)
  \/ Package(1)

Spec == Init /\ [][Next]_vars

\* Two worker threads, each with one call, on the same disk.
NextShared ==
  \E w \in Workers :
    \/ StartShared(w)
    \/ ValidateInputs(w)
    \/ ValidateOutput(w)
    \/ ProcessFile(w)
    \/ Package(w)

SpecShared == Init /\ [][NextShared]_vars

(***************************************************************************)
(* The detector and the extractor called on their own.                     *)
(***************************************************************************)
\* FileUtils.get_file_type(file_path) on a file of the catalog.
ApplyGetFileType ==
  /\ called = "none"
  /\ \E f \in Files :
       /\ called' = "get_file_type"
       /\ args' = << f >>
       /\ returned' = get_file_type(f)
  /\ UNCHANGED << output_dir, inspections, widget_vars, merge_vars >>

\* The image_formats argument: a set of formats, or nothing (None).
NoFormats == [ given |-> FALSE, formats |-> {} ]

FormatArgs == { [ given |-> TRUE, formats |-> fm ] : fm \in FormatChoices }
                 \cup { NoFormats }

\* The format set the signature promises for a call without image_formats.
DefaultFormats == { <<"j","p","g">> }

\* ZIPExtractor.extract_images(zip_path, output_dir, image_formats,
\* chapter_prefix) into an empty output directory, chapter_prefix being
\* "ch" and the number; outcome tells how each target entry fares.  The
\* result dict and the files of the output directory afterwards.
extract_images(f, image_formats, zip_file_number, outcome) ==
  LET failed(e) == [ result |-> [ success |-> FALSE, error |-> e,
                                  extracted_files |-> << >>,
                                  total_extracted |-> 0 ],
                     files |-> {} ]
  IN IF ~Catalog[f].exists THEN failed("missing")
     ELSE IF Lower(Suffix(Catalog[f].path)) # <<".","z","i","p">>
     THEN failed("not_zip")
     ELSE IF ~validate_zip_valid(f) THEN failed("invalid")
     \* line 204: `in image_formats` raises TypeError on None at the first
     \* validated entry, and a valid file has one
     ELSE IF ~image_formats.given THEN failed("exception")
     ELSE LET targets == target_files(f, image_formats.formats) IN
          IF targets = << >> THEN failed("no_match")
          ELSE [ result |-> [ success |-> TRUE, error |-> "none",
                              extracted_files |-> << >>,
                              total_extracted |-> ExtractedCount(outcome) ],
                 files |-> ExtractPages({}, zip_file_number, targets, outcome, 1) ]

\* ZIPExtractor.extract_images on a file of the catalog.
ApplyExtractImages ==
  /\ called = "none"
  /\ \E f \in Files, image_formats \in FormatArgs, zip_file_number \in 1..2 :
       LET asked == IF image_formats.given THEN image_formats.formats
                    ELSE DefaultFormats
       IN \E outcome \in [ 1..Len(target_files_of[f][asked]) -> EntryOutcomes ] :
            LET r == extract_images(f, image_formats, zip_file_number, outcome) IN
            /\ called' = "extract_images"
            /\ args' = << f, image_formats, zip_file_number, outcome >>
            /\ returned' = r.result
            /\ output_dir' = r.files
  /\ UNCHANGED << inspections, widget_vars, merge_vars >>

\* ZIPExtractor.parse_format_string
parse_format_string(format_string) ==
  IF format_string = << >> THEN { <<"j","p","g">> }
  ELSE LET pieces == SplitComma(format_string)
           formats == { LStripDot(Strip(pieces[k])) : k \in 1..Len(pieces) }
                        \cap SUPPORTED_IMAGE_FORMATS
       IN IF formats = {} THEN { <<"j","p","g">> } ELSE formats

\* What a caller writes between the commas of a format string.
FormatWords ==
  { <<"j","p","g">>, <<"J","P","G">>, <<"P","N","G">>,
    <<" ",".","p","n","g">>, <<"t","i","f","f">>, <<"g","i","f"," ">>, << >> }

\* s with the words of ws after it, a comma before each.
RECURSIVE JoinComma(_, _)
JoinComma(s, ws) ==
  IF ws = << >> THEN s ELSE JoinComma(s \o <<",">> \o Head(ws), Tail(ws))

\* The format strings of up to MaxWords words.
FormatStrings ==
  { JoinComma(Head(ws), Tail(ws)) :
      ws \in UNION { [ 1..n -> FormatWords ] : n \in 1..MaxWords } }

\* ZIPExtractor.parse_format_string(format_string)
ApplyParseFormatString ==
  /\ called = "none"
  /\ \E format_string \in FormatStrings :
       /\ called' = "parse_format_string"
       /\ args' = << format_string >>
       /\ returned' = parse_format_string(format_string)
  /\ UNCHANGED << output_dir, inspections, widget_vars, merge_vars >>

\* The entry names a ZIP given to the extractor on its own can hold.
EntryNames ==
  { <<"i","m","g","2",".","j","p","g">>,
    <<"I","m","g","2",".","j","p","g">>,
    <<"i","m","g","1","0",".","j","p","g">>,
    <<"z","/","i","m","g","1",".","j","p","g">>,
    <<"sup2","1",".","j","p","g">>,
    <<"n",".","t","x","t">> }

EntryLists == UNION { [ 1..n -> EntryNames ] : n \in 0..MaxEntries }

\* ZIPExtractor.validate_zip_file(zip_path) on a readable .zip file that
\* holds the given entries.
ApplyValidateZipFile ==
  /\ called = "none"
  /\ \E all \in EntryLists :
       /\ called' = "validate_zip_file"
       /\ args' = << all >>
       /\ returned' = validate_zip_entries(all)
  /\ UNCHANGED << output_dir, inspections, widget_vars, merge_vars >>

\* CBZMerger.validate_comic_files(file_paths) on files of the catalog.
ApplyValidateComicFiles ==
  /\ called = "none"
  /\ \E paths \in InputLists :
       /\ called' = "validate_comic_files"
       /\ args' = << paths >>
       /\ returned' = validate_comic_files(paths)
  /\ UNCHANGED << output_dir, inspections, widget_vars, merge_vars >>

\* One call of one function, any arguments.
NextUnits ==
  \/ ApplyGetFileType
  \/ ApplyValidateComicFiles
  \/ ApplyValidateZipFile
  \/ ApplyExtractImages
  \/ ApplyParseFormatString

SpecUnits == Init /\ [][NextUnits]_vars

(***************************************************************************)
(* The inspector called from outside, before, during and after a merge.    *)
(***************************************************************************)
\* The paths a caller inspects: a good input, an input that does not open,
\* and the path the merge writes its archive to.
InspectPaths == { "a.cbz", "x.cbz", "new.cbz" }

\* The entry names of the archive at an output path: the images, then
\* ComicInfo.xml if the merge wrote it (cbz_merger.py, lines 245-253).
ArchiveImageNames(file) == [ k \in 1..Len(file.images) |-> file.images[k].name ]

\* extract_comic_info, lines 119-146, on a container that opens: names are
\* its image entry names in container order; has_info tells whether an
\* entry's lowered name ends with comicinfo.xml, info being its text.
Descriptor(names, has_info, info, extra) ==
  LET keep == { n \in { names[k] : k \in 1..Len(names) } :
                  \E e \in image_extensions : EndsWith(Lower(n), e) }
      image_files == SortStrings(FilterSeq(names, keep))
  IN [ error |-> FALSE, page_count |-> Len(image_files) + extra,
       image_files |-> image_files,
       has_comic_info |-> has_info, comic_info |-> info ]

\* The record of line 148 in the shape of a descriptor.
NoDescriptor ==
  [ error |-> TRUE, page_count |-> 0, image_files |-> << >>,
    has_comic_info |-> FALSE, comic_info |-> << >> ]

\* What the path holds as extract_comic_info finds it, `extra` added to the
\* page count.  No file of the catalogue holds a ComicInfo.xml entry.
DescriptorAt(p, extra) ==
  IF p \in Files
  THEN (IF Catalog[p].exists /\ Catalog[p].opens
        THEN Descriptor(Catalog[p].entries, FALSE, << >>, extra)
        ELSE NoDescriptor)
  ELSE (IF fs[p].present
        THEN Descriptor(ArchiveImageNames(fs[p]), fs[p].has_meta, fs[p].meta, extra)
        ELSE NoDescriptor)

\* A faulty inspector: it counts the files of a running merge's working
\* directory as pages of whatever it inspects.
extract_comic_info_counting(p) == DescriptorAt(p, Cardinality(work_files[1]))

\* FileUtils.extract_comic_info on a path of the disk as it is now.
extract_comic_info_now(p) == DescriptorAt(p, 0)

\* The file at an output path; an input is a file no operation writes.
DiskFile(p) == IF p \in DOMAIN fs THEN fs[p] ELSE NoFile

\* FileUtils.extract_comic_info(file_path) called from outside the merge:
\* the container is opened for reading (line 119) and nothing is written.
Inspect(p) ==
  /\ inspections' = Append(inspections,
                           [ path |-> p, info |-> extract_comic_info_now(p),
                             file |-> DiskFile(p) ])
  /\ UNCHANGED << called, args, returned, output_dir, widget_vars, merge_vars >>

\* A first inspection of some path.
InspectFirst ==
  /\ inspections = << >>
  /\ \E p \in InspectPaths : Inspect(p)

\* A second inspection of the path inspected before.
InspectAgain ==
  /\ Len(inspections) = 1
  /\ Inspect(inspections[1].path)

\* One merge call, with inspections before it, between its steps and after it.
NextInspect ==
  \/ StartShared(1)
  \/ ValidateInputs(1)
  \/ ValidateOutput(1)
  \/ ProcessFile(1)
  \/ Package(1)
  \/ InspectFirst
  \/ InspectAgain

SpecInspect == Init /\ [][NextInspect]_vars

(***************************************************************************)
(* gui/main_window.py: the merge button and the worker threads it starts.  *)
(***************************************************************************)
\* What the file list holds when the button is pressed: add_files admits
\* valid comic files only, each once, and the handler asks for two at least.
WindowLists == { << "a.cbz", "e.cbz" >> }

\* MainWindow._set_ui_state(enabled): the state the merge button has after
\* the call.  `state` is computed and applied to no widget (lines 648-654).
set_ui_state(enabled) == merge_button

\* MainWindow._start_merge, run by the UI thread when the button, which Tk
\* lets act only while it is not disabled, is pressed: the checks of lines
\* 557-583, _set_ui_state(False), and a new thread w that calls
\* merge_comic_files on the window's one CBZMerger.
StartMerge(w) ==
  /\ merge_button = "normal"
  /\ pc[w] = "idle"
  /\ \E paths \in WindowLists, out \in SharedOutPaths, formats \in SharedFormats :
       /\ Len(paths) >= 2
       /\ validate_output_path(out)
       /\ file_paths' = [ file_paths EXCEPT ![w] = paths ]
       /\ output_path' = [ output_path EXCEPT ![w] = out ]
       /\ preserve_metadata' = [ preserve_metadata EXCEPT ![w] = TRUE ]
       /\ zip_formats' = [ zip_formats EXCEPT ![w] = formats ]
       /\ pc' = [ pc EXCEPT ![w] = "validating" ]
       /\ fs_at_start' = [ fs_at_start EXCEPT ![w] = fs ]
  /\ merge_button' = set_ui_state(FALSE)
  /\ UNCHANGED << i, page_number, merged_info, result, work_dir, work_files,
                  scratch_dirs, writes, fs, progress, called, args, returned,
                  output_dir, inspections, completed, file_list,
                  selected_indices, list_op >>

\* MainWindow._on_merge_complete, run by the UI thread after thread w has
\* returned from merge_comic_files (line 607): _set_ui_state(True).
OnMergeComplete(w) ==
  /\ pc[w] = "done"
  /\ w \notin completed
  /\ completed' = completed \cup { w }
  /\ merge_button' = set_ui_state(TRUE)
  /\ UNCHANGED << merge_vars, called, args, returned, output_dir, inspections,
                  file_list, selected_indices, list_op >>

\* The window: the button pressed at any moment, the threads it started.
NextWindow ==
  \E w \in Workers :
    \/ StartMerge(w)
    \/ ValidateInputs(w)
    \/ ValidateOutput(w)
    \/ ProcessFile(w)
    \/ Package(w)
    \/ OnMergeComplete(w)

SpecWindow == Init /\ [][NextWindow]_vars

(***************************************************************************)
(* gui/file_list_widget.py: the input list and its selection.  A file of   *)
(* the list is its path (add_files keeps the paths distinct); indices are  *)
(* the code's, counted from 0.                                             *)
(***************************************************************************)

\* The longest list the handlers are run on.
MaxListed == 3

ElemsOf(s) == { s[k] : k \in 1..Len(s) }

\* sorted(indices)
IndicesInOrder(S) ==
  CHOOSE s \in [ 1..Cardinality(S) -> S ] :
    \A a, b \in 1..Cardinality(S) : a < b => s[a] < s[b]

\* [list[i] for i in indices]
ItemsAt(list, indices) == [ n \in 1..Len(indices) |-> list[indices[n] + 1] ]

\* The list after `del list[index]` for every index of S, highest first.
WithoutIndices(list, S) ==
  ItemsAt(list, IndicesInOrder({ k \in 0..(Len(list) - 1) : k \notin S }))

\* list.pop(k) leaves this list.
PopAt(list, k) == SubSeq(list, 1, k) \o SubSeq(list, k + 2, Len(list))

\* list.insert(k, item)
InsertAt(list, k, item) ==
  SubSeq(list, 1, k) \o << item >> \o SubSeq(list, k + 1, Len(list))

\* FileListWidget._update_selection: the index of every selected row, as
\* tree.selection() lists them, in the order of the rows.
update_selection(rows) == IndicesInOrder(rows)

\* FileListWidget._refresh_tree: the rows are made anew from file_list, the
\* rows at the indices of selected_indices that are within bounds are
\* selected, and _update_selection reads the selection back.
refresh_tree(list, sel) ==
  update_selection({ k \in ElemsOf(sel) : 0 <= k /\ k < Len(list) })

\* The widget as the handlers find it.
Widget == [ file_list |-> file_list, selected_indices |-> selected_indices ]

\* FileListWidget._move_item
move_item(st, from_index, to_index) ==
  IF ~(/\ 0 <= from_index /\ from_index < Len(st.file_list)
       /\ 0 <= to_index /\ to_index < Len(st.file_list))
  THEN st
  ELSE LET item == st.file_list[from_index + 1]
           list == InsertAt(PopAt(st.file_list, from_index), to_index, item)
           sel == [ n \in 1..Len(st.selected_indices) |->
                      LET k == st.selected_indices[n] IN
                      IF k = from_index THEN to_index
                      ELSE IF from_index < k /\ k <= to_index THEN k - 1
                      ELSE IF to_index <= k /\ k < from_index THEN k + 1
                      ELSE k ]
       IN [ file_list |-> list, selected_indices |-> refresh_tree(list, sel) ]

\* for from_idx, to_idx in moves: self._move_item(from_idx, to_idx)
RECURSIVE DoMoves(_, _)
DoMoves(st, moves) ==
  IF moves = << >> THEN st
  ELSE DoMoves(move_item(st, Head(moves)[1], Head(moves)[2]), Tail(moves))

MinOf(S) == CHOOSE m \in S : \A k \in S : m <= k

MaxOf(S) == CHOOSE m \in S : \A k \in S : m >= k

ReverseSeq(s) == [ n \in 1..Len(s) |-> s[Len(s) + 1 - n] ]

\* FileListWidget.move_selected_up: past the guard of line 410 every
\* selected index is above 0 and gets its move.
move_selected_up(st) ==
  LET S == ElemsOf(st.selected_indices)
      sorted == IndicesInOrder(S)
  IN IF S = {} THEN st
     ELSE IF MinOf(S) <= 0 THEN st
     ELSE DoMoves(st, [ n \in 1..Len(sorted) |-> << sorted[n], sorted[n] - 1 >> ])

\* FileListWidget.move_selected_down: the moves from the highest index down.
move_selected_down(st) ==
  LET S == ElemsOf(st.selected_indices)
      sorted == ReverseSeq(IndicesInOrder(S))
  IN IF S = {} THEN st
     ELSE IF MaxOf(S) >= Len(st.file_list) - 1 THEN st
     ELSE DoMoves(st, [ n \in 1..Len(sorted) |-> << sorted[n], sorted[n] + 1 >> ])

\* FileListWidget.move_selected_to_top: lines 448 and 452 take the selected
\* indices above 0 only, and line 462 selects as many rows from the top as
\* were taken.
move_selected_to_top(st) ==
  LET S == ElemsOf(st.selected_indices)
      taken == { k \in S : k > 0 }
      selected_items == ItemsAt(st.file_list, IndicesInOrder(taken))
      list == selected_items \o WithoutIndices(st.file_list, taken)
  IN IF S = {} THEN st
     ELSE [ file_list |-> list,
            selected_indices |->
              refresh_tree(list, [ n \in 1..Len(selected_items) |-> n - 1 ]) ]

\* FileListWidget.move_selected_to_bottom
move_selected_to_bottom(st) ==
  LET S == ElemsOf(st.selected_indices)
      selected_items == ItemsAt(st.file_list, IndicesInOrder(S))
      rest == WithoutIndices(st.file_list, S)
      list == rest \o selected_items
  IN IF S = {} THEN st
     ELSE [ file_list |-> list,
            selected_indices |->
              refresh_tree(list, [ n \in 1..Len(selected_items) |->
                                     Len(rest) + n - 1 ]) ]

\* One turn of the loop of add_files: a file that is no comic file, that is
\* listed already or that the inspector cannot read is passed over.
add_one(list, f) ==
  IF ~is_valid_comic_file(f) THEN list
  ELSE IF f \in ElemsOf(list) THEN list
  ELSE IF comic_info_of[f].error THEN list
  ELSE Append(list, f)

\* FileListWidget.add_files
RECURSIVE add_files(_, _)
add_files(list, paths) ==
  IF paths = << >> THEN list
  ELSE add_files(add_one(list, Head(paths)), Tail(paths))

\* What the handlers leave alone.
beside_list == << merge_vars, called, args, returned, output_dir, inspections,
                 merge_button, completed >>

\* The widget after a handler.
Becomes(st) ==
  /\ file_list' = st.file_list
  /\ selected_indices' = st.selected_indices
  /\ UNCHANGED beside_list

AddFiles ==
  \E paths \in InputLists :
    /\ Len(add_files(file_list, paths)) <= MaxListed
    /\ list_op' = "add_files"
    /\ Becomes([ Widget EXCEPT !.file_list = add_files(file_list, paths) ])

\* FileListWidget.remove_selected
RemoveSelected ==
  /\ selected_indices # << >>
  /\ list_op' = "remove_selected"
  /\ LET list == WithoutIndices(file_list, ElemsOf(selected_indices))
     IN Becomes([ file_list |-> list,
                  selected_indices |-> refresh_tree(list, << >>) ])

\* FileListWidget.clear_all
ClearAll ==
  /\ list_op' = "clear_all"
  /\ Becomes([ file_list |-> << >>, selected_indices |-> << >> ])

\* FileListWidget._on_item_click on row k, or beside the rows (k = -1).
OnItemClick ==
  \E k \in -1..(Len(file_list) - 1) :
    /\ list_op' = "_on_item_click"
    /\ Becomes([ Widget EXCEPT !.selected_indices =
                   update_selection(IF k = -1 THEN {}
                                    ELSE IF k \in ElemsOf(selected_indices)
                                         THEN ElemsOf(selected_indices)
                                         ELSE { k }) ])

\* FileListWidget._on_ctrl_click on row k
OnCtrlClick ==
  \E k \in 0..(Len(file_list) - 1) :
    /\ list_op' = "_on_ctrl_click"
    /\ Becomes([ Widget EXCEPT !.selected_indices =
                   update_selection(IF k \in ElemsOf(selected_indices)
                                    THEN ElemsOf(selected_indices) \ { k }
                                    ELSE ElemsOf(selected_indices) \cup { k }) ])

\* FileListWidget._on_shift_click on row k: the rows between the last
\* selected row and k.
OnShiftClick ==
  \E k \in 0..(Len(file_list) - 1) :
    /\ list_op' = "_on_shift_click"
    /\ Becomes([ Widget EXCEPT !.selected_indices =
                   update_selection(
                     IF selected_indices = << >> THEN { k }
                     ELSE LET last == selected_indices[Len(selected_indices)]
                          IN IF last > k THEN k..last ELSE last..k) ])

\* FileListWidget._on_tree_drop of the row dragged from drag_start_index,
\* target_index being the row under the pointer, the one below it, or the
\* end of the list; the row goes through _move_item.
OnTreeDrop ==
  \E drag_start_index \in 0..(Len(file_list) - 1), target_index \in 0..Len(file_list) :
    /\ drag_start_index # target_index
    /\ LET adjusted == IF drag_start_index < target_index THEN target_index - 1
                       ELSE target_index
           to_index == IF adjusted > Len(file_list) - 1 THEN Len(file_list) - 1
                       ELSE IF adjusted < 0 THEN 0 ELSE adjusted
       IN Becomes(move_item(Widget, drag_start_index, to_index))
    /\ list_op' = "_move_item"

MoveSelectedUp ==
  /\ list_op' = "move_selected_up"
  /\ Becomes(move_selected_up(Widget))

MoveSelectedDown ==
  /\ list_op' = "move_selected_down"
  /\ Becomes(move_selected_down(Widget))

MoveSelectedToTop ==
  /\ list_op' = "move_selected_to_top"
  /\ Becomes(move_selected_to_top(Widget))

MoveSelectedToBottom ==
  /\ list_op' = "move_selected_to_bottom"
  /\ Becomes(move_selected_to_bottom(Widget))

\* The list under the user's hands.
NextList ==
  \/ AddFiles
  \/ RemoveSelected
  \/ ClearAll
  \/ OnItemClick
  \/ OnCtrlClick
  \/ OnShiftClick
  \/ OnTreeDrop
  \/ MoveSelectedUp
  \/ MoveSelectedDown
  \/ MoveSelectedToTop
  \/ MoveSelectedToBottom

SpecList == Init /\ [][NextList]_vars

(***************************************************************************)
(* Properties.                                                             *)
(***************************************************************************)
Returned(w) == pc[w] = "done"

\* The positions of the input list.
Positions(w) == 1..Len(file_paths[w])

\* The file this call left at its output path, if it wrote one.
Output(w) == fs[output_path[w]]

WroteOutput(w) == Output(w).present /\ Output(w).writer = w

\* Wrong extension, missing, or a container that does not open.
BrokenInput(f) ==
  \/ ~Catalog[f].exists
  \/ ~Catalog[f].opens
  \/ Lower(Suffix(Catalog[f].path)) \notin { <<".","c","b","z">>, <<".","z","i","p">> }

HasBrokenInput(w) == \E k \in Positions(w) : BrokenInput(file_paths[w][k])

InSeq(x, s) == \E k \in 1..Len(s) : s[k] = x

\* C1: a call given at least one input that has a wrong extension, is missing
\* or does not open never creates a working directory, a scratch directory or
\* an output file, and it returns success = false with every such input in
\* invalid_files.
C1_AllOrNothing ==
  \A w \in Workers :
    (pc[w] # "idle" /\ HasBrokenInput(w)) =>
       /\ work_dir[w] = "none"
       /\ work_files[w] = {}
       /\ scratch_dirs = 0
       /\ fs = fs_at_start[w]
       /\ Returned(w) =>
            /\ ~result[w].success
            /\ result[w].error = "invalid_files"
            /\ \A k \in Positions(w) :
                 BrokenInput(file_paths[w][k]) =>
                    InSeq(file_paths[w][k], result[w].invalid_files)

C1_Witness ==
  /\ Returned(1)
  /\ file_paths[1] = << "a.cbz", "x.cbz" >>
  /\ output_path[1] = "new.cbz"
  /\ result[1].invalid_files = << "x.cbz" >>

AllInputsValid(w) == validate_comic_files(file_paths[w]).invalid_files = << >>

ExistedAtStart(w) == fs_at_start[w][output_path[w]].present

\* C2 as stated: a call whose output path is taken returns success = false
\* with the path-validation error and leaves the file as it was.
C2_PathErrorAlways ==
  \A w \in Workers :
    (Returned(w) /\ ExistedAtStart(w)) =>
       /\ ~result[w].success
       /\ result[w].error = "path"
       /\ Output(w) = fs_at_start[w][output_path[w]]

\* C2, amended: a call whose output path was taken when it began never writes
\* that file, in any sequence or interleaving of two calls, and it returns
\* success = false: with the path-validation error when every input is valid,
\* with the invalid-input error otherwise.
C2_NoOverwrite ==
  \A w \in Workers :
    (pc[w] # "idle" /\ ExistedAtStart(w)) =>
       /\ Output(w) = fs_at_start[w][output_path[w]]
       /\ Returned(w) =>
            /\ ~result[w].success
            /\ result[w].error = IF AllInputsValid(w) THEN "path" ELSE "invalid_files"

C2_Witness ==
  /\ Returned(2)
  /\ output_path[2] = "new.cbz"
  /\ ExistedAtStart(2)
  /\ fs["new.cbz"].writer = 1
  /\ result[2].error = "path"

\* The images of the output archive.
OutputImages(w) == Output(w).images

\* The sum of the page counts validation reports for the inputs.
ValidatedPages(w) == validate_comic_files(file_paths[w]).total_pages

\* C3 as stated: every successful merge reports the sum of the validated page
\* counts and writes that many image entries.
C3_AdditiveAlways ==
  \A w \in Workers :
    (Returned(w) /\ result[w].success) =>
       /\ result[w].total_pages = ValidatedPages(w)
       /\ Len(OutputImages(w)) = ValidatedPages(w)

\* No error was recorded and every image entry counted at validation was
\* staged: of a CBZ input, each unpacks to a file that exists and has a
\* supported image suffix; of a ZIP input, each is a safe entry in the chosen
\* format set and each was extracted.
NothingSkipped(w) ==
  /\ result[w].errors = << >>
  /\ Len(merged_info[w]) = Len(file_paths[w])
  /\ \A k \in Positions(w) :
       LET f == file_paths[w][k]
           imgs == comic_info_of[f].image_files
           targets == target_files_of[f][zip_formats[w]]
       IN IF file_type_of[f] = "CBZ"
          THEN \A n \in 1..Len(imgs) :
                  SrcExists(imgs[n]) /\ Lower(Suffix(imgs[n])) \in image_extensions
          ELSE /\ file_type_of[f] = "ZIP"
               /\ Len(targets) = Len(imgs)
               /\ merged_info[w][k].pages = Len(imgs)

\* C3, amended: in a successful merge total_pages and the number of image
\* entries written never exceed the sum of the validated page counts, and both
\* equal it when the merge recorded no error and skipped no image entry
\* counted at validation.
C3_Additive ==
  \A w \in Workers :
    (Returned(w) /\ result[w].success) =>
       /\ result[w].total_pages <= ValidatedPages(w)
       /\ Len(OutputImages(w)) <= ValidatedPages(w)
       /\ NothingSkipped(w) =>
            /\ result[w].total_pages = ValidatedPages(w)
            /\ Len(OutputImages(w)) = ValidatedPages(w)

C3_Witness ==
  /\ Returned(1)
  /\ result[1].success
  /\ NothingSkipped(1)
  /\ file_paths[1] = << "a.cbz", "z.zip" >>
  /\ result[1].total_pages = 4
  /\ Len(OutputImages(1)) = 4

\* The place of an entry in the order its file's pages are staged in.
PlaceIn(seq, entry) == CHOOSE n \in 1..Len(seq) : seq[n] = entry

PerFileOrder(w, k) ==
  LET f == file_paths[w][k] IN
  IF file_type_of[f] = "CBZ" THEN comic_info_of[f].image_files
  ELSE target_files_of[f][zip_formats[w]]

\* C4: in the output of a successful merge that recorded no error, the pages
\* of an earlier input all precede the pages of a later input, and the pages
\* of one input stand in that input's own sorted order.
C4_InputOrder ==
  \A w \in Workers :
    (Returned(w) /\ result[w].success /\ result[w].errors = << >>) =>
       \A a, b \in 1..Len(OutputImages(w)) :
         a < b =>
           LET x == OutputImages(w)[a]
               y == OutputImages(w)[b]
           IN /\ x.pos <= y.pos
              /\ x.pos = y.pos =>
                   PlaceIn(PerFileOrder(w, x.pos), x.entry)
                     < PlaceIn(PerFileOrder(w, y.pos), y.entry)

\* C5: when a call has returned, its working directory does not exist.
C5_WorkDirRemoved ==
  \A w \in Workers : Returned(w) => work_dir[w] # "live"

C5_Witness ==
  /\ Returned(1)
  /\ work_dir[1] = "removed"
  /\ ~result[1].success
  /\ result[1].errors # << >>

\* C6: in a successful merge every input has at least one page in the output,
\* or an error names it; no source summary reports zero pages.
C6_EveryInputContributes ==
  \A w \in Workers :
    (Returned(w) /\ result[w].success) =>
       /\ \A k \in Positions(w) :
            \/ \E n \in 1..Len(OutputImages(w)) : OutputImages(w)[n].pos = k
            \/ \E n \in 1..Len(result[w].errors) : result[w].errors[n].at = k
       /\ \A n \in 1..Len(result[w].merged_files) :
            result[w].merged_files[n].pages >= 1

\* A ZIP input with supported images, none of them in the chosen format set.
NoQualifyingImage(w, f) ==
  /\ is_valid_zip_file(f)
  /\ target_files_of[f][zip_formats[w]] = << >>

\* C7: a call given a ZIP input with no image in the chosen format set is
\* stopped at validation: no working directory, no output, success = false.
C7_RejectedAtValidation ==
  \A w \in Workers :
    (pc[w] # "idle" /\ \E k \in Positions(w) : NoQualifyingImage(w, file_paths[w][k])) =>
       /\ work_dir[w] = "none"
       /\ ~WroteOutput(w)
       /\ Returned(w) => ~result[w].success

\* The inputs whose processing recorded an error.
FailedPositions(w) ==
  { result[w].errors[n].at : n \in 1..Len(result[w].errors) } \ { 0 }

\* C8: in a successful merge in which the processing of some input failed, no
\* page of a failed input is in the output, and total_pages counts no more
\* than the pages of the other inputs.
C8_FailedInputAbsent ==
  \A w \in Workers :
    (Returned(w) /\ result[w].success /\ FailedPositions(w) # {}) =>
       /\ \A n \in 1..Len(OutputImages(w)) :
            OutputImages(w)[n].pos \notin FailedPositions(w)
       /\ result[w].total_pages <=
            Cardinality({ n \in 1..Len(OutputImages(w)) :
                            OutputImages(w)[n].pos \notin FailedPositions(w) })

\* C9: a merge that collected no image does not succeed: every successful
\* merge has written at least one image entry.
C9_NoEmptyArchive ==
  \A w \in Workers :
    (Returned(w) /\ result[w].success) => OutputImages(w) # << >>

\* C10: a call that returned success = false has left no file of its own at
\* the output path.
C10_NoPartialOutput ==
  \A w \in Workers :
    (Returned(w) /\ ~result[w].success) => ~WroteOutput(w)

\* C12: get_file_type answers CBZ only for a file with the suffix .cbz, in
\* any case of letters, that exists and opens as an archive.
C12_CbzOnlyIfOpens ==
  (called = "get_file_type" /\ returned = "CBZ") =>
     /\ Lower(Suffix(Catalog[args[1]].path)) = <<".","c","b","z">>
     /\ Catalog[args[1]].exists
     /\ Catalog[args[1]].opens

\* An entry name that leaves the archive: it contains '..' or starts with '/'.
Traversal(name) == HasDotDot(name) \/ StartsWith(name, <<"/">>)

\* How many entries of the file have a name that stays inside the archive.
SafeEntryCount(f) ==
  Cardinality({ k \in 1..Len(Catalog[f].entries) : ~Traversal(Catalog[f].entries[k]) })

\* C13: no entry whose name contains '..' or starts with '/' is counted as a
\* page of its source, staged in the working directory or written to the
\* output archive, whether the input is a CBZ or a ZIP.
C13_TraversalRejected ==
  \A w \in Workers :
    /\ \A k \in 1..Len(merged_info[w]) :
         merged_info[w][k].pages <= SafeEntryCount(merged_info[w][k].path)
    /\ \A x \in work_files[w] : ~Traversal(x.entry)
    /\ \A n \in 1..Len(OutputImages(w)) : ~Traversal(OutputImages(w)[n].entry)

\* How often x occurs in the list s.
Occurrences(x, s) == Cardinality({ k \in 1..Len(s) : s[k] = x })

\* C14: for every list of entry names validate_zip_file returns the image
\* entries, each as often as the archive holds it, in natural order of the
\* leaf name: no entry stands before one whose key is smaller, so "img2.jpg"
\* stands before "img10.jpg", and "Img2.jpg" and "img2.jpg", whose keys are
\* equal, keep the order the archive lists them in.
C14_NaturalOrder ==
  called = "validate_zip_file" =>
     LET scan == ScanImageEntries(args[1])
         out == returned.image_files
     IN /\ \A n \in EntryNames : Occurrences(n, out) = Occurrences(n, scan)
        /\ \A a, b \in 1..Len(out) : a < b => ~NaturalLess(out[b], out[a])
        /\ \A a, b \in 1..Len(scan) :
             (a < b /\ natural_sort_key(scan[a]) = natural_sort_key(scan[b])) =>
                \E c, d \in 1..Len(out) : c < d /\ out[c] = scan[a] /\ out[d] = scan[b]

\* The entries of the file that extract_images is asked for: image entries
\* inside the archive whose extension is in the format set.
RequestedEntries(f, formats) ==
  { e \in { Catalog[f].entries[k] : k \in 1..Len(Catalog[f].entries) } :
      ~Traversal(e) /\ ~EndsWith(e, <<"/">>) /\ EntryExt(e) \in formats }

\* The 1-based place of entry e among the entries E in natural order.
NaturalPlace(e, E) == 1 + Cardinality({ x \in E : NaturalLess(x, e) })

ExtractCalled == called = "extract_images"

NoEntryFailed == \A k \in DOMAIN args[4] : args[4][k] = "ok"

C16_SuccessNeedsOneEntry ==
  (ExtractCalled /\ returned.success) =>
     /\ returned.total_extracted >= 1
     /\ \E x \in output_dir : x.whole

\* C17: extract_images called without a format set returns what the same
\* call with the format set {jpg} returns, and writes the same files.
C17_DefaultIsJpg ==
  (ExtractCalled /\ ~args[2].given) =>
     LET r == extract_images(args[1], [ given |-> TRUE, formats |-> DefaultFormats ],
                             args[3], args[4])
     IN returned = r.result /\ output_dir = r.files

\* C18: after a successful extract_images the extracted_files list has
\* total_extracted elements, as many as there are files written whole to
\* the output directory.
C18_ExtractedFilesListed ==
  (ExtractCalled /\ returned.success) =>
     /\ Len(returned.extracted_files) = returned.total_extracted
     /\ returned.total_extracted = Cardinality({ x \in output_dir : x.whole })

\* The supported formats the words of a format string name, in any case of
\* letters, surrounding spaces and leading dots set aside.
NamedFormats(format_string) ==
  LET pieces == SplitComma(format_string) IN
  { Lower(LStripDot(Strip(pieces[k]))) : k \in 1..Len(pieces) }
    \cap SUPPORTED_IMAGE_FORMATS

\* C19: parse_format_string returns a non-empty subset of the supported
\* formats: the formats the string names, matched without regard to case,
\* and {jpg} when it names none.
C19_ParseFormats ==
  called = "parse_format_string" =>
     /\ returned # {}
     /\ returned \subseteq SUPPORTED_IMAGE_FORMATS
     /\ returned = IF NamedFormats(args[1]) = {} THEN { <<"j","p","g">> }
                   ELSE NamedFormats(args[1])

\* The phase a call is in: VALIDATING covers the input gate and the output
\* gate; a returned call is DONE or FAILED by its success flag.
Phase(w) ==
  CASE pc[w] = "idle" -> "IDLE"
    [] pc[w] \in { "validating", "checking_output" } -> "VALIDATING"
    [] pc[w] = "processing" -> "PROCESSING"
    [] pc[w] = "packaging" -> "PACKAGING"
    [] OTHER -> IF result[w].success THEN "DONE" ELSE "FAILED"

\* The phases one step can lead to.  An empty input list has no turn of the
\* processing loop to take, so packaging follows validation at once.
PhaseSuccessors(ph) ==
  CASE ph = "IDLE" -> { "VALIDATING" }
    [] ph = "VALIDATING" -> { "VALIDATING", "PROCESSING", "PACKAGING", "FAILED" }
    [] ph = "PROCESSING" -> { "PROCESSING", "PACKAGING" }
    [] ph = "PACKAGING" -> { "DONE", "FAILED" }
    [] OTHER -> {}

\* Both gates were passed: every input is valid and the output path was
\* free, in a directory that exists.
GatesPassed(w) ==
  /\ AllInputsValid(w)
  /\ ParentExists(output_path[w])
  /\ ~ExistedAtStart(w)

\* Something of the call's processing exists: its working directory, a file
\* in it, a source summary, the error of an input that failed.
ProcessingBegun(w) ==
  \/ work_dir[w] # "none"
  \/ work_files[w] # {}
  \/ merged_info[w] # << >>
  \/ FailedPositions(w) # {}

\* C11: the phases follow one another in the order VALIDATING, PROCESSING,
\* PACKAGING, DONE, with FAILED at the end of a call that did not succeed;
\* the working directory is created and inputs are unpacked only after both
\* gates were passed, and the output archive is written only after every
\* input has had its turn.
C11_PhaseOrder ==
  /\ [][ \A w \in Workers :
           Phase(w)' # Phase(w) => Phase(w)' \in PhaseSuccessors(Phase(w)) ]_vars
  /\ [](\A w \in Workers :
          /\ ProcessingBegun(w) =>
               /\ GatesPassed(w)
               /\ pc[w] \in { "processing", "packaging", "done" }
          /\ WroteOutput(w) =>
               /\ pc[w] = "done"
               /\ i[w] = Len(file_paths[w]))

C11_Witness ==
  /\ Returned(1)
  /\ result[1].success
  /\ Len(file_paths[1]) = 2
  /\ i[1] = 2
  /\ WroteOutput(1)


\* The inputs of worker w that contributed, in processing order: those whose
\* processing recorded no error.
ContributingPositions(w) ==
  FilterSeq([ k \in Positions(w) |-> k ], Positions(w) \ FailedPositions(w))

\* The display names of the contributing inputs, in processing order.
ContributingNames(w) ==
  [ n \in 1..Len(ContributingPositions(w)) |->
      Leaf(Catalog[file_paths[w][ContributingPositions(w)[n]]].path) ]

MisreadErrors(w) ==
  { n \in 1..Len(result[w].errors) : result[w].errors[n].kind = "key_error" }

\* C21: extract_comic_info answers every file with a descriptor whose
\* page_count is the length of its image_files, sorted as strings, or with a
\* record that has the error key; and no call of the merge engine reads a
\* descriptor field of a record that has the error key.
C21_ErrorsAreData ==
  /\ \A f \in Files :
       ~comic_info_of[f].error =>
          /\ comic_info_of[f].page_count = Len(comic_info_of[f].image_files)
          /\ comic_info_of[f].image_files = SortStrings(comic_info_of[f].image_files)
  /\ \A w \in Workers : MisreadErrors(w) = {}


\* Two files at a path with the same content.
SameFile(a, b) ==
  /\ a.present = b.present
  /\ a.writer = b.writer
  /\ a.images = b.images
  /\ a.complete = b.complete
  /\ a.has_meta = b.has_meta
  /\ a.has_meta => a.meta = b.meta

\* Two answers of the inspector with the same page count, the same entry
\* list in the same order and the same embedded metadata.
SameDescriptor(a, b) ==
  /\ a.error = b.error
  /\ a.page_count = b.page_count
  /\ a.image_files = b.image_files
  /\ a.has_comic_info = b.has_comic_info
  /\ a.has_comic_info => a.comic_info = b.comic_info

EventsInOrder(w) ==
  /\ \A a, b \in 1..Len(progress[w]) :
       a < b => progress[w][a].current <= progress[w][b].current
  /\ \A k \in 1..Len(progress[w]) :
       /\ progress[w][k].total = Len(file_paths[w])
       /\ ~progress[w][k].archive_written

\* The last event has index = total.
LastEventIsTotal(w) ==
  /\ progress[w] # << >>
  /\ progress[w][Len(progress[w])].current = progress[w][Len(progress[w])].total

\* C23 as stated: the events are in order, with a constant total; a call that
\* passed validation has, when it returns, emitted at least one event, the
\* last with index = total and before the archive was written; a call
\* stopped at validation has emitted none.
C23_ProgressAlways ==
  \A w \in Workers :
    /\ EventsInOrder(w)
    /\ (Returned(w) /\ GatesPassed(w)) => LastEventIsTotal(w)
    /\ (pc[w] # "idle" /\ ~GatesPassed(w)) => progress[w] = << >>

\* C23, amended: the events are in order, with a constant total; a call that
\* passed validation and created its working directory has, when it
\* returns, emitted at least one event, the last with index = total and
\* before the archive was written; a call stopped at validation, or one
\* that could not create its working directory, has emitted none.
C23_Progress ==
  \A w \in Workers :
    /\ EventsInOrder(w)
    /\ (Returned(w) /\ work_dir[w] # "none") =>
          /\ LastEventIsTotal(w)
          /\ Len(progress[w]) >= Len(file_paths[w]) + 1
    /\ (pc[w] # "idle" /\ (~GatesPassed(w) \/ work_dir[w] = "none")) =>
          progress[w] = << >>

C23_Witness ==
  /\ Returned(1)
  /\ WroteOutput(1)
  /\ file_paths[1] = << "a.cbz", "z.zip" >>
  /\ Len(progress[1]) = 4
  /\ progress[1][4].current = 2
  /\ progress[1][4].total = 2


\* A merge is in flight: its thread was started and _on_merge_complete has
\* not yet run for it.
InFlight(w) == pc[w] # "idle" /\ w \notin completed

\* C24: at most one merge started from the window is in flight at any time,
\* and no two threads have both passed the output gate for the same path.
C24_OneMergeInFlight ==
  /\ Cardinality({ w \in Workers : InFlight(w) }) <= 1
  /\ \A v, w \in Workers :
       (v # w /\ output_path[v] = output_path[w]) =>
          ~(work_dir[v] # "none" /\ work_dir[w] # "none")


\* C25: the scratch directory a CBZ input is unpacked into is removed when
\* that input's turn ends, whether the turn succeeded or unpacking or a copy
\* raised: between the turns of the loop and after the call has returned no
\* scratch directory exists.
C25_ScratchRemoved == scratch_dirs = 0


\* The sum of the page counts of a list of descriptors.
RECURSIVE SumPages(_)
SumPages(infos) ==
  IF infos = << >> THEN 0 ELSE Head(infos).page_count + SumPages(Tail(infos))

\* The sum of the file sizes of a list of descriptors.
RECURSIVE SumSizes(_)
SumSizes(infos) ==
  IF infos = << >> THEN 0 ELSE Head(infos).file_size + SumSizes(Tail(infos))

\* How many descriptors of the list are of file f.
DescriptorsOf(f, infos) ==
  Cardinality({ k \in 1..Len(infos) : infos[k].file_path = f })

\* A file named .cbz that exists and is no archive.
NonArchiveCbz(f) ==
  /\ Catalog[f].exists
  /\ ~Catalog[f].opens
  /\ Lower(Suffix(Catalog[f].path)) = <<".","c","b","z">>

\* C26: validate_comic_files puts every input path in exactly one of
\* valid_files and invalid_files, as often as the input list holds it, so
\* the two lengths add up to the number of inputs; total_pages is the sum
\* of page_count and total_size the sum of file_size over valid_files, each
\* the inspected file's own; a file named .cbz that is no archive is in
\* invalid_files.
C26_ValidationPartition ==
  called = "validate_comic_files" =>
     LET valid == returned.valid_files
         invalid == returned.invalid_files
     IN /\ Len(valid) + Len(invalid) = Len(args[1])
        /\ \A f \in Files :
             /\ DescriptorsOf(f, valid) + Occurrences(f, invalid)
                  = Occurrences(f, args[1])
             /\ DescriptorsOf(f, valid) = 0 \/ Occurrences(f, invalid) = 0
             /\ (NonArchiveCbz(f) /\ Occurrences(f, args[1]) > 0) =>
                  Occurrences(f, invalid) > 0
        /\ \A k \in 1..Len(valid) :
             /\ valid[k].page_count = Len(InfoImageFiles(valid[k].file_path))
             /\ valid[k].file_size = SizeOf[valid[k].file_path]
        /\ returned.total_pages = SumPages(valid)
        /\ returned.total_size = SumSizes(valid)

C26_Witness ==
  /\ called = "validate_comic_files"
  /\ args[1] = << "a.cbz", "x.cbz" >>
  /\ Len(returned.valid_files) = 1
  /\ returned.invalid_files = << "x.cbz" >>
  /\ returned.total_pages = 2
  /\ returned.total_size = 3


\* The sum of the pages fields of a list of source summaries.
RECURSIVE SumSummaryPages(_)
SumSummaryPages(infos) ==
  IF infos = << >> THEN 0 ELSE Head(infos).pages + SumSummaryPages(Tail(infos))

\* C27: from the first turn of the loop to the return, the page counter
\* minus one is the number of files staged in the working directory; once
\* the loop has ended it is also the sum of the pages fields of the source
\* summaries, and the result returned reports that number as total_pages.
C27_CounterConsistent ==
  \A w \in Workers :
    /\ pc[w] \in { "processing", "packaging" } =>
         page_number[w] - 1 = Cardinality(work_files[w])
    /\ pc[w] = "packaging" =>
         page_number[w] - 1 = SumSummaryPages(merged_info[w])
    /\ (Returned(w) /\ work_dir[w] # "none") =>
         /\ result[w].total_pages = page_number[w] - 1
         /\ result[w].total_pages = SumSummaryPages(merged_info[w])


\* C28: while a merge stages pages, every file it has written into its
\* working directory is there under a name of its own: as many files as
\* writes, pages of CBZ and of ZIP inputs and of a file listed twice alike,
\* so no write replaced an earlier page.
C28_StagedNamesUnique ==
  \A w \in Workers :
    pc[w] \in { "processing", "packaging" } =>
       /\ Cardinality(work_files[w]) = writes[w]
       /\ \A x, y \in work_files[w] : x.name = y.name => x = y


\* The files the selection holds.
SelectedFiles == { file_list[k + 1] : k \in ElemsOf(selected_indices) }

ReorderOps ==
  { "move_selected_up", "move_selected_down", "move_selected_to_top",
    "move_selected_to_bottom", "_move_item" }

\* C29: a reordering handler leaves the list a permutation of what it was
\* (the files are distinct: the same files, as many), every selected index
\* within bounds, and the same files selected.
C29_ReorderPreserves ==
  [][ list_op' \in ReorderOps =>
        /\ ElemsOf(file_list') = ElemsOf(file_list)
        /\ Len(file_list') = Len(file_list)
        /\ \A k \in ElemsOf(selected_indices') : 0 <= k /\ k < Len(file_list')
        /\ SelectedFiles' = SelectedFiles ]_vars

\* C30: move_selected_to_top leaves the selected files first, in the order
\* they had, then the other files in the order they had, and the same files
\* selected, index 0 among the selected or not.
C30_ToTopKeepsOrder ==
  [][ list_op' = "move_selected_to_top" /\ selected_indices # << >> =>
        /\ file_list' =
             ItemsAt(file_list, IndicesInOrder(ElemsOf(selected_indices)))
             \o WithoutIndices(file_list, ElemsOf(selected_indices))
        /\ SelectedFiles' = SelectedFiles ]_vars

=============================================================================
